---- MODULE Spec2Model ----
(***************************************************************************)
(* Model of the Telegram relay bot (src/TelegramWebhookHandler/__init__.py *)
(* and src/bot.py): the context window builder, the lazily initialised     *)
(* messaging client guarded by ptb_init_lock, and the conversation turn    *)
(* handlers working on the per-chat record of the Cosmos container.        *)
(*                                                                         *)
(* Specifications:                                                         *)
(*   SpecWindow  _prepare_and_truncate_history_for_llm on bounded inputs   *)
(*   Spec        concurrent invocations of main (lazy PTB initialisation)  *)
(*   SpecTurn    concurrent handlers on one chat's record                  *)
(*   SpecSerial  the same handlers, one update handled at a time           *)
(*   SpecStored  the same, on a record that already holds a conversation   *)
(*   SpecEmptied the same, on a record with metadata and an empty history  *)
(*   SpecSave    the item_body of save_chat_history_to_cosmos of both     *)
(*               entry points on bounded arguments                         *)
(*   FairSpec    Spec with the event loop's fairness                       *)
(*   SpecSignal  one llm_message_handler with its typing and completion    *)
(*               tasks; FairSpecSignal adds the event loop's fairness      *)
(***************************************************************************)
EXTENDS Integers, Sequences, FiniteSets, TLC

VARIABLES
  \* ---- context window builder (SpecWindow) ----
  full_history,            \* argument full_history
  max_messages,            \* argument max_messages
  final_prepared_history,  \* the value returned
  reapplied,               \* the value returned for the returned window
  wstage,                  \* "off" | "input" | "applied" | "reapplied"
  \* ---- save_chat_history_to_cosmos of both entry points (SpecSave) ----
  save_args,               \* the arguments of the call and its entry point
  item_body,               \* the item_body given to upsert_item
  sstage,                  \* "off" | "input" | "applied"
  \* ---- module globals of the function app (Spec) ----
  critical_secrets_missing, \* flag set by the global initialisation block
  TELEGRAM_BOT_TOKEN,      \* TRUE iff the token was loaded
  ptb_application,         \* None or the Application object stored
  ptb_bot_instance,        \* None or the bot of the Application stored
  ptb_init_lock,           \* asyncio.Lock: [locked, waiters]
  apps_built,              \* number of Application objects built so far
  \* ---- one invocation of main per slot p ----
  pc,                      \* where invocation p stands
  req,                     \* the request of invocation p
  temp_app,                \* local temp_app of initialize_ptb_application
  resp,                    \* the HttpResponse returned by invocation p
  invocations,             \* number of invocations started so far
  \* ---- the Cosmos container and one update handler per slot p ----
  container,               \* item id -> item body (a dict)
  hpc,                     \* where the handler of slot p stands
  update,                  \* the Update handled by slot p
  current_turn_history,    \* local current_turn_history
  existing_doc_metadata,   \* local existing_doc_metadata
  is_first_interaction_for_chat, \* local flag
  history_for_llm,         \* local window given to the completion call
  llm_reply_content,       \* local llm_reply_content
  calls,                   \* calls the handler has made to its collaborators
  save_ok,                 \* how the handler's upsert_item ended: "none" | "ok" | "failed"
  updates,                 \* number of updates dispatched so far
  \* ---- the concurrent section of one llm_message_handler (SpecSignal) ----
  stop_typing_event,       \* asyncio.Event stop_typing_event: is it set
  typing_task,             \* where the task of send_typing_periodically stands
  llm_task,                \* where the task of get_llm_response_from_openrouter stands
  typing_sent,             \* send_chat_action calls started by the typing task
  faults,                  \* the failures this handler has met
  history_saved,           \* history_list passed to save_chat_history_to_cosmos
  reply_sent               \* text passed to the last reply_text

pvars == <<save_args, item_body, sstage>>
wvars == <<full_history, max_messages, final_prepared_history, reapplied,
           wstage, pvars>>
mvars == <<critical_secrets_missing, TELEGRAM_BOT_TOKEN, ptb_application,
           ptb_bot_instance, ptb_init_lock, apps_built, pc, req, temp_app,
           resp, invocations>>
tvars == <<container, hpc, update, current_turn_history, existing_doc_metadata,
           is_first_interaction_for_chat, history_for_llm, llm_reply_content,
           calls, save_ok, updates>>
svars == <<stop_typing_event, typing_task, llm_task, typing_sent, faults,
           history_saved, reply_sent>>
vars == <<wvars, mvars, tvars, svars>>

(***************************************************************************)
(* Bounds of the model                                                     *)
(***************************************************************************)
MaxLen == 4   \* longest history given to the window builder
MaxN == 2     \* largest max_messages given to the window builder
NumProcs == 2        \* invocations of main that can be in progress at once
MaxInvocations == 4  \* invocations of main started in one behaviour
MaxUpdates == 3      \* updates dispatched to the handlers in one behaviour
MaxStoredTurns == 25 \* most conversation turns of a record found in the store
MaxSignalTurns == 2  \* text messages handled in one behaviour of SpecSignal
MaxTypingSent == 2   \* typing actions one typing task starts

Procs == 1..NumProcs
\* The slots of the update handlers: two handlers can overlap.
Handlers == {1, 2}

(***************************************************************************)
(* Turns                                                                   *)
(***************************************************************************)
Roles == {"system", "user", "assistant"}

Min(a, b) == IF a < b THEN a ELSE b
Max(a, b) == IF a > b THEN a ELSE b

\* Python's s[start:] for a list s and any integer start (negative counts
\* from the end; -0 is 0, so s[-0:] is the whole list).
PySliceFrom(s, start) ==
  LET n == Len(s)
      i == IF start < 0 THEN Max(n + start, 0) ELSE Min(start, n)
  IN  SubSeq(s, i + 1, n)

\* A plausible slip: the leading system turn is kept in the conversation
\* part (the [1:] is forgotten) and then attached again.
prepare_keeps_system_in_conversation(h, n) ==
  IF h = <<>> THEN <<>>
  ELSE LET has_system == h[1].role = "system"
           system_message_obj == IF has_system THEN <<h[1]>> ELSE <<>>
           conversation_messages == h
       IN  IF Len(conversation_messages) > n
           THEN system_message_obj \o PySliceFrom(conversation_messages, -n)
           ELSE system_message_obj \o conversation_messages

\* A plausible slip: the truncating branch forgets to re-attach the system
\* turn.
prepare_drops_system_when_truncating(h, n) ==
  IF h = <<>> THEN <<>>
  ELSE LET has_system == h[1].role = "system"
           system_message_obj == IF has_system THEN <<h[1]>> ELSE <<>>
           conversation_messages == IF has_system THEN Tail(h) ELSE h
       IN  IF Len(conversation_messages) > n
           THEN PySliceFrom(conversation_messages, -n)
           ELSE system_message_obj \o conversation_messages

\* _prepare_and_truncate_history_for_llm(full_history, max_messages, chat_id);
\* chat_id is only logged.
_prepare_and_truncate_history_for_llm(h, n) ==
  IF h = <<>> THEN <<>>
  ELSE LET has_system == h[1].role = "system"
           system_message_obj == IF has_system THEN <<h[1]>> ELSE <<>>
           conversation_messages == IF has_system THEN Tail(h) ELSE h
       IN  IF Len(conversation_messages) > n
           THEN system_message_obj \o PySliceFrom(conversation_messages, -n)
           ELSE system_message_obj \o conversation_messages

(***************************************************************************)
(* Conversation records: texts, turns, users, the item of a chat           *)
(***************************************************************************)
MAX_CONVERSATION_MESSAGES == 20
MAX_USER_MESSAGE_LENGTH == 2000

\* A text is known by what it is (kind, id) and by its len().
Text(kind, id, length) == [kind |-> kind, id |-> id, len |-> length]
SYSTEM_MESSAGE_CONTENT == Text("system_message_content", 0, 0)
SYSTEM_MESSAGE == [role |-> "system", content |-> SYSTEM_MESSAGE_CONTENT]
\* "Ah, my brain's a bit fuzzy right now. Ask me later, 'kay?"
FallbackReply == Text("fallback_fuzzy", 0, 57)
\* "Sorry, something went wrong while thinking..."
DefaultReply == Text("default_sorry", 0, 45)
\* The completion for the window sent while handling update number n.
GeneratedReply(n) == Text("generated", n, 1)

\* effective_user of an update; the second user has no username.
Users == {[id |-> "101", username |-> "alice"], [id |-> "102", username |-> ""]}
\* lengths of the text messages sent: the longest accepted, the shortest
\* rejected
TextLengths == {MAX_USER_MESSAGE_LENGTH, MAX_USER_MESSAGE_LENGTH + 1}
\* /start, /clear, or a text message that is no command
UpdateKinds == {"start", "clear", "text"}
\* The message texts update number n can carry: the command itself, or a
\* text of one of the lengths.
TextsOf(kind, n) ==
  IF kind = "text" THEN {Text(kind, n, l) : l \in TextLengths}
  ELSE {Text(kind, n, 6)}

\* The one chat the handlers work on, and its item id str(chat_id).
ChatId == "chat"

\* Python dicts are functions on their keys.
EmptyDict == [k \in {} |-> ""]
DictGet(d, k, default) == IF k \in DOMAIN d THEN d[k] ELSE default
Truthy(d) == DOMAIN d # {}

\* A plausible slip: ">=" for ">".
TooLongAtLimit(text) == text.len >= MAX_USER_MESSAGE_LENGTH
\* "if len(user_message_content) > MAX_USER_MESSAGE_LENGTH"
TooLong(text) == text.len > MAX_USER_MESSAGE_LENGTH

\* A plausible slip: a fresh system turn is put in front of whatever was
\* loaded.
SeedAlways(retrieved_history, metadata) ==
  <<SYSTEM_MESSAGE>> \o retrieved_history
\* A plausible slip: the fresh system turn is forgotten.
SeedNever(retrieved_history, metadata) == retrieved_history
\* lines 202-204: current_turn_history before the user turn is appended.  A
\* first interaction, or an empty history with metadata, starts from a fresh
\* system turn.
SeedHistory(retrieved_history, metadata) ==
  IF retrieved_history = <<>> /\ ~Truthy(metadata) THEN <<SYSTEM_MESSAGE>>
  ELSE IF retrieved_history = <<>> /\ Truthy(metadata) THEN <<SYSTEM_MESSAGE>>
  ELSE retrieved_history

\* A plausible slip: only the history is looked at.
FirstWheneverHistoryEmpty(retrieved_history, metadata) ==
  retrieved_history = <<>>
\* line 200: "not retrieved_history and not existing_doc_metadata"
IsFirstInteraction(retrieved_history, metadata) ==
  retrieved_history = <<>> /\ ~Truthy(metadata)

\* get_chat_history_from_cosmos: <<history, metadata>>; read_ok is FALSE when
\* read_item raises anything but "not found".
get_chat_history_from_cosmos(store, read_ok) ==
  IF read_ok /\ ChatId \in DOMAIN store
  THEN LET item_response == store[ChatId]
       IN  <<DictGet(item_response, "history", <<>>),
             [k \in DOMAIN item_response \ {"history"} |-> item_response[k]]>>
  ELSE <<<<>>, EmptyDict>>

\* A plausible slip: every save stamps the interacting user as the creator.
ItemBodyCreatorRestamped(history_list, user, is_initial_creation_or_reset, existing_metadata) ==
  [id |-> ChatId, chat_id |-> ChatId, history |-> history_list,
   last_interactor_user_id |-> user.id,
   last_interactor_username |->
     IF user.username # "" THEN user.username ELSE "N/A",
   creator_user_id |-> user.id,
   creator_username |-> IF user.username # "" THEN user.username ELSE "N/A"]

\* The item_body built by save_chat_history_to_cosmos of __init__.py
\* (last_updated_timestamp, which nothing reads, is left out).
ItemBody(history_list, user, is_initial_creation_or_reset, existing_metadata) ==
  LET user_id_str == user.id
      username_to_store == IF user.username # "" THEN user.username ELSE "N/A"
      base == [id |-> ChatId, chat_id |-> ChatId, history |-> history_list,
               last_interactor_user_id |-> user_id_str,
               last_interactor_username |-> username_to_store]
      creator ==
        IF is_initial_creation_or_reset
        THEN [creator_user_id |-> user_id_str,
              creator_username |-> username_to_store]
        ELSE IF Truthy(existing_metadata)
        THEN [creator_user_id |->
                DictGet(existing_metadata, "creator_user_id", user_id_str),
              creator_username |->
                DictGet(existing_metadata, "creator_username", username_to_store)]
        ELSE [creator_user_id |-> user_id_str,
              creator_username |-> username_to_store]
  IN  [k \in DOMAIN base \cup DOMAIN creator |->
         IF k \in DOMAIN creator THEN creator[k] ELSE base[k]]

\* A plausible slip: create_item for upsert_item, which leaves an existing
\* item as it is.
UpsertCreatesOnly(store, body, write_ok) ==
  IF write_ok /\ body.id \notin DOMAIN store
  THEN [k \in DOMAIN store \cup {body.id} |->
          IF k = body.id THEN body ELSE store[k]]
  ELSE store
CreatorKeys == {"creator_user_id", "creator_username"}

\* The item_body built by save_chat_history_to_cosmos of bot.py: with a
\* non-empty existing_metadata each creator field is copied only
\* "if 'creator_...' in existing_metadata", and nothing is written for a
\* field that is missing.
bot_ItemBody(history_list, user, is_initial_creation_or_reset, existing_metadata) ==
  LET user_id_str == user.id
      username_to_store == IF user.username # "" THEN user.username ELSE "N/A"
      base == [id |-> ChatId, chat_id |-> ChatId, history |-> history_list,
               last_interactor_user_id |-> user_id_str,
               last_interactor_username |-> username_to_store]
      creator ==
        IF is_initial_creation_or_reset
        THEN [creator_user_id |-> user_id_str,
              creator_username |-> username_to_store]
        ELSE IF Truthy(existing_metadata)
        THEN [k \in CreatorKeys \cap DOMAIN existing_metadata |->
                existing_metadata[k]]
        ELSE [creator_user_id |-> user_id_str,
              creator_username |-> username_to_store]
  IN  [k \in DOMAIN base \cup DOMAIN creator |->
         IF k \in DOMAIN creator THEN creator[k] ELSE base[k]]

\* The two entry points: the function app and the polling bot.
EntryPoints == {"TelegramWebhookHandler", "bot"}
ItemBodyOf(entry, history_list, user, is_reset, existing_metadata) ==
  IF entry = "bot"
  THEN bot_ItemBody(history_list, user, is_reset, existing_metadata)
  ELSE ItemBody(history_list, user, is_reset, existing_metadata)

\* upsert_item(body): create or replace the item; a failed write changes
\* nothing.
Upsert(store, body, write_ok) ==
  IF write_ok
  THEN [k \in DOMAIN store \cup {body.id} |->
          IF k = body.id THEN body ELSE store[k]]
  ELSE store

\* How the "try: await upsert_item(...) / except Exception" of the save ended.
UpsertOutcome(write_ok) == IF write_ok THEN "ok" ELSE "failed"

\* No text passed to reply_text yet.
NoText == Text("none", 0, 0)

\* The concurrent section at rest: no event set, no task created.
SignalOff ==
  /\ stop_typing_event = FALSE
  /\ typing_task = "none"
  /\ llm_task = "none"
  /\ typing_sent = 0
  /\ faults = {}
  /\ history_saved = <<>>
  /\ reply_sent = NoText

\* No handler is running, nothing stored.
TurnOff ==
  /\ container = EmptyDict
  /\ hpc = [p \in Handlers |-> "idle"]
  /\ update = [p \in Handlers |-> EmptyDict]
  /\ current_turn_history = [p \in Handlers |-> <<>>]
  /\ existing_doc_metadata = [p \in Handlers |-> EmptyDict]
  /\ is_first_interaction_for_chat = [p \in Handlers |-> FALSE]
  /\ history_for_llm = [p \in Handlers |-> <<>>]
  /\ llm_reply_content = [p \in Handlers |-> DefaultReply]
  /\ calls = [p \in Handlers |-> <<>>]
  /\ save_ok = [p \in Handlers |-> "none"]
  /\ updates = 0
  /\ SignalOff

(***************************************************************************)
(* main and initialize_ptb_application.  The function app runs its         *)
(* invocations as coroutines of one event loop: the code between two       *)
(* awaits is one step.                                                     *)
(***************************************************************************)
\* The window builder at rest (not part of this specification).
WindowOff ==
  /\ full_history = <<>>
  /\ max_messages = 0
  /\ final_prepared_history = <<>>
  /\ reapplied = <<>>
  /\ wstage = "off"
  /\ save_args = EmptyDict
  /\ item_body = EmptyDict
  /\ sstage = "off"

None == 0

Response(status, body) == [status_code |-> status, body |-> body]
NoResponse == Response(0, "")

\* A plausible slip: no mutual exclusion (the guard never makes anyone wait).
LockAlwaysFree == TRUE
\* asyncio.Lock.acquire returns at once iff the lock is free and nobody is
\* queued for it.
LockFree == ~ptb_init_lock.locked /\ ptb_init_lock.waiters = <<>>

\* A plausible slip: the check under the lock is left out.
SecondCheckSkipped == TRUE
\* "if not ptb_application:  # Double-check after acquiring lock"
SecondCheck == ptb_application = None

\* A plausible slip: the half-built application stays stored.
PtbApplicationKeptAfterFailure(p) == temp_app[p]
\* What the failure branch of initialize_ptb_application leaves in
\* ptb_application: "ptb_application = None; ptb_bot_instance = None".
PtbApplicationAfterFailure(p) == None

\* A plausible slip: the lock is taken by hand and the early "return 500" of
\* the guarded section leaves without releasing it.
LockKeptAfterFailure(held) == held
\* "return func.HttpResponse(..., status_code=500)" inside
\* "async with ptb_init_lock:": __aexit__ releases the lock.
LockAfterFailure(held) == [held EXCEPT !.locked = FALSE]

\* A plausible slip: a malformed body is not noticed.
get_json_never_raises(r) == FALSE
\* "request_body = req.get_json()" raises ValueError.
get_json_raises(r) == ~r.valid_json

\* A plausible slip: the failure is reported to the caller as a server error.
ProcessingFailedAsServerError == Response(500, "internal_error")
\* The response of "except Exception as e_process_update" (line 303).
ProcessingFailed == Response(200, "internal_error")

MainOff ==
  /\ critical_secrets_missing = FALSE
  /\ TELEGRAM_BOT_TOKEN = TRUE
  /\ ptb_application = None
  /\ ptb_bot_instance = None
  /\ ptb_init_lock = [locked |-> FALSE, waiters |-> <<>>]
  /\ apps_built = 0
  /\ pc = [p \in Procs |-> "idle"]
  /\ req = [p \in Procs |-> [valid_json |-> TRUE]]
  /\ temp_app = [p \in Procs |-> None]
  /\ resp = [p \in Procs |-> NoResponse]
  /\ invocations = 0

\* The state after the global initialisation block: the flag is set when a
\* secret is missing (a missing token always sets it), no PTB application.
MainInit ==
  /\ WindowOff
  /\ TurnOff
  /\ TELEGRAM_BOT_TOKEN \in BOOLEAN
  /\ critical_secrets_missing \in BOOLEAN
  /\ ~TELEGRAM_BOT_TOKEN => critical_secrets_missing
  /\ ptb_application = None
  /\ ptb_bot_instance = None
  /\ ptb_init_lock = [locked |-> FALSE, waiters |-> <<>>]
  /\ apps_built = 0
  /\ pc = [p \in Procs |-> "idle"]
  /\ req = [p \in Procs |-> [valid_json |-> TRUE]]
  /\ temp_app = [p \in Procs |-> None]
  /\ resp = [p \in Procs |-> NoResponse]
  /\ invocations = 0

Requests == [valid_json : BOOLEAN]

\* The body of "async with ptb_init_lock:" entered by p, up to its first
\* await (temp_app.initialize()) or to the end of main's guarded section.
\* `held` is the lock once p has it.
GuardedSection(p, held) ==
  IF ~SecondCheck
  THEN \* singleton present: leave the section, lock released
       /\ ptb_init_lock' = [held EXCEPT !.locked = FALSE]
       /\ pc' = [pc EXCEPT ![p] = "parsing"]
       /\ UNCHANGED <<apps_built, temp_app, resp>>
  ELSE IF TELEGRAM_BOT_TOKEN
  THEN \* temp_app = Application.builder()...build(); await temp_app.initialize()
       /\ ptb_init_lock' = held
       /\ apps_built' = apps_built + 1
       /\ temp_app' = [temp_app EXCEPT ![p] = apps_built + 1]
       /\ pc' = [pc EXCEPT ![p] = "init_await"]
       /\ UNCHANGED resp
  ELSE \* token missing: nothing built, main answers 500
       /\ ptb_init_lock' = LockAfterFailure(held)
       /\ resp' = [resp EXCEPT ![p] = Response(500, "ptb_init_failed")]
       /\ pc' = [pc EXCEPT ![p] = "done"]
       /\ UNCHANGED <<apps_built, temp_app>>

\* main, lines 250-271: the configuration check, the unlocked check and the
\* acquisition of the lock.
MainStart(p) ==
  /\ pc[p] = "idle"
  /\ invocations < MaxInvocations
  /\ invocations' = invocations + 1
  /\ \E r \in Requests : req' = [req EXCEPT ![p] = r]
  /\ IF critical_secrets_missing
     THEN /\ resp' = [resp EXCEPT ![p] = Response(500, "config_secrets")]
          /\ pc' = [pc EXCEPT ![p] = "done"]
          /\ UNCHANGED <<ptb_init_lock, apps_built, temp_app>>
     ELSE IF ptb_application # None
     THEN /\ pc' = [pc EXCEPT ![p] = "parsing"]
          /\ UNCHANGED <<ptb_init_lock, apps_built, temp_app, resp>>
     ELSE IF LockFree
     THEN GuardedSection(p, [ptb_init_lock EXCEPT !.locked = TRUE])
     ELSE /\ ptb_init_lock' =
               [ptb_init_lock EXCEPT !.waiters = Append(@, p)]
          /\ pc' = [pc EXCEPT ![p] = "lock_wait"]
          /\ UNCHANGED <<apps_built, temp_app, resp>>
  /\ UNCHANGED <<critical_secrets_missing, TELEGRAM_BOT_TOKEN,
                 ptb_application, ptb_bot_instance, wvars, tvars, svars>>

\* The first waiter is woken by the release and takes the lock.
LockWake(p) ==
  /\ pc[p] = "lock_wait"
  /\ ~ptb_init_lock.locked
  /\ ptb_init_lock.waiters # <<>>
  /\ Head(ptb_init_lock.waiters) = p
  /\ GuardedSection(p, [locked |-> TRUE,
                        waiters |-> Tail(ptb_init_lock.waiters)])
  /\ UNCHANGED <<critical_secrets_missing, TELEGRAM_BOT_TOKEN,
                 ptb_application, ptb_bot_instance, req, invocations, wvars, tvars, svars>>

\* temp_app.initialize() returns: the globals are stored, main's check
\* passes and the guarded section is left.
InitSucceeds(p) ==
  /\ pc[p] = "init_await"
  /\ ptb_application' = temp_app[p]
  /\ ptb_bot_instance' = temp_app[p]
  /\ ptb_init_lock' = [ptb_init_lock EXCEPT !.locked = FALSE]
  /\ pc' = [pc EXCEPT ![p] = "parsing"]
  /\ UNCHANGED <<critical_secrets_missing, TELEGRAM_BOT_TOKEN, apps_built,
                 req, temp_app, resp, invocations, wvars, tvars, svars>>

\* The construction raises: the except branch resets the globals, main
\* answers 500 from inside the guarded section (the lock is released).
InitFails(p) ==
  /\ pc[p] = "init_await"
  /\ ptb_application' = PtbApplicationAfterFailure(p)
  /\ ptb_bot_instance' = None
  /\ ptb_init_lock' = LockAfterFailure(ptb_init_lock)
  /\ resp' = [resp EXCEPT ![p] = Response(500, "ptb_init_failed")]
  /\ pc' = [pc EXCEPT ![p] = "done"]
  /\ UNCHANGED <<critical_secrets_missing, TELEGRAM_BOT_TOKEN, apps_built,
                 req, temp_app, invocations, wvars, tvars, svars>>

\* main, lines 273-296: req.get_json(), the check of ptb_bot_instance and
\* Update.de_json, up to "await ptb_application.process_update(update)".
ParseBody(p) ==
  /\ pc[p] = "parsing"
  /\ IF get_json_raises(req[p])
     THEN /\ resp' = [resp EXCEPT ![p] = Response(400, "invalid_json")]
          /\ pc' = [pc EXCEPT ![p] = "done"]
     ELSE IF ptb_bot_instance = None
     THEN /\ resp' = [resp EXCEPT ![p] = Response(500, "bot_unavailable")]
          /\ pc' = [pc EXCEPT ![p] = "done"]
     ELSE \E decoded \in BOOLEAN :
            IF decoded
            THEN /\ pc' = [pc EXCEPT ![p] = "processing"]
                 /\ UNCHANGED resp
            ELSE /\ resp' = [resp EXCEPT ![p] = ProcessingFailed]
                 /\ pc' = [pc EXCEPT ![p] = "done"]
  /\ UNCHANGED <<critical_secrets_missing, TELEGRAM_BOT_TOKEN,
                 ptb_application, ptb_bot_instance, ptb_init_lock, apps_built,
                 req, temp_app, invocations, wvars, tvars, svars>>

\* process_update returns or raises (lines 296-303).
ProcessUpdate(p) ==
  /\ pc[p] = "processing"
  /\ \E processed \in BOOLEAN :
       resp' = [resp EXCEPT ![p] =
                  IF processed THEN Response(200, "processed")
                  ELSE ProcessingFailed]
  /\ pc' = [pc EXCEPT ![p] = "done"]
  /\ UNCHANGED <<critical_secrets_missing, TELEGRAM_BOT_TOKEN,
                 ptb_application, ptb_bot_instance, ptb_init_lock, apps_built,
                 req, temp_app, invocations, wvars, tvars, svars>>

\* The response has been returned; the slot takes the next invocation.
MainReturn(p) ==
  /\ pc[p] = "done"
  /\ pc' = [pc EXCEPT ![p] = "idle"]
  /\ resp' = [resp EXCEPT ![p] = NoResponse]
  /\ temp_app' = [temp_app EXCEPT ![p] = None]
  /\ UNCHANGED <<critical_secrets_missing, TELEGRAM_BOT_TOKEN,
                 ptb_application, ptb_bot_instance, ptb_init_lock, apps_built,
                 req, invocations, wvars, tvars, svars>>

Next ==
  \E p \in Procs :
    \/ MainStart(p)
    \/ LockWake(p)
    \/ InitSucceeds(p)
    \/ InitFails(p)
    \/ ParseBody(p)
    \/ ProcessUpdate(p)
    \/ MainReturn(p)

Spec == MainInit /\ [][Next]_vars

\* Fair scheduling of the event loop: a woken waiter runs, a construction
\* attempt ends (it returns or raises), and an invocation whose await has
\* completed goes on.
FairSpec ==
  /\ Spec
  /\ \A p \in Procs :
       /\ WF_vars(LockWake(p))
       /\ WF_vars(InitSucceeds(p) \/ InitFails(p))
       /\ WF_vars(ParseBody(p))
       /\ WF_vars(ProcessUpdate(p))

(***************************************************************************)
(* Claims on the lazy initialisation                                       *)
(***************************************************************************)
Initializing == {p \in Procs : pc[p] = "init_await"}
InSeq(x, s) == \E i \in 1..Len(s) : s[i] = x

\* C7: once an initialisation has succeeded no construction is in progress
\* or started again, and the stored singleton is never replaced or unset.
C7_ConstructedOnce ==
  /\ [](ptb_application # None => Initializing = {})
  /\ [][ptb_application # None =>
          /\ ptb_application' = ptb_application
          /\ ptb_bot_instance' = ptb_bot_instance
          /\ apps_built' = apps_built]_vars

\* C7 witness: the singleton is stored and a later invocation, started
\* after it, has passed the guard without building anything.
C7_Witness ==
  /\ ptb_application # None
  /\ ptb_bot_instance = ptb_application
  /\ invocations >= 3
  /\ \E p \in Procs : pc[p] \in {"parsing", "processing"}

\* C8: at most one initialisation attempt is in progress, it runs with the
\* guard held; an invocation starts one only under the guard, with the
\* singleton still absent at that moment; the others wait in the guard's
\* queue or have seen the singleton.
C8_OneInitAtATime ==
  /\ [](/\ Cardinality(Initializing) <= 1
        /\ Initializing # {} => ptb_init_lock.locked
        /\ \A p \in Procs :
             /\ pc[p] = "lock_wait" <=> InSeq(p, ptb_init_lock.waiters)
             /\ pc[p] \in {"parsing", "processing"} => ptb_application # None)
  /\ [][\A p \in Procs :
          (pc[p] # "init_await" /\ pc'[p] = "init_await") =>
            /\ ptb_application = None
            /\ Initializing = {}
            /\ ptb_init_lock'.locked]_vars

\* C8 witness: one invocation is constructing while another waits for the
\* guard.
C8_Witness ==
  \E p, q \in Procs :
    /\ p # q
    /\ pc[p] = "init_await"
    /\ pc[q] = "lock_wait"

\* C9: a failed construction leaves the singleton unset and answers 500,
\* and every invocation that finds the singleton unset (with the
\* configuration complete) attempts the construction again.
C9_FailureNotCached ==
  /\ [][\A p \in Procs :
          (pc[p] = "init_await" /\ pc'[p] = "done") =>
            /\ ptb_application' = None
            /\ ptb_bot_instance' = None
            /\ resp'[p].status_code = 500]_vars
  /\ [][\A p \in Procs :
          (/\ pc[p] \in {"idle", "lock_wait"}
           /\ pc'[p] # pc[p]
           /\ ~critical_secrets_missing
           /\ ptb_application = None) =>
            \/ pc'[p] = "lock_wait"
            \/ /\ pc'[p] = "init_await"
               /\ apps_built' = apps_built + 1]_vars
  /\ [](\A p \in Procs :
          pc[p] \in {"parsing", "processing"} => ptb_application # None)

\* C9 witness: an attempt failed and answered 500, and the next attempt,
\* by another invocation, has stored the singleton.
C9_Witness ==
  \E p \in Procs :
    /\ pc[p] = "done"
    /\ resp[p] = Response(500, "ptb_init_failed")
    /\ apps_built >= 2
    /\ ptb_application = apps_built

\* C18: with the configuration complete and the PTB application stored, an
\* invocation whose body is JSON and whose Update.de_json or process_update
\* raises answers 200; no step taken after the body was parsed answers a 4xx
\* or 5xx status.
C18_ProcessingFailureIs200 ==
  /\ [][\A p \in Procs :
          (/\ pc[p] \in {"parsing", "processing"}
           /\ ~critical_secrets_missing
           /\ ptb_application # None /\ ptb_bot_instance # None
           /\ req[p].valid_json
           /\ pc'[p] = "done") => resp'[p].status_code = 200]_vars
  /\ [](\A p \in Procs :
          resp[p].body = "internal_error" => resp[p].status_code = 200)

\* C18 witness: one invocation has answered 200 after its processing failed
\* while the PTB application is stored.
C18_Witness ==
  /\ ptb_application # None
  /\ \E p \in Procs :
       /\ pc[p] = "done"
       /\ req[p].valid_json
       /\ resp[p] = Response(200, "internal_error")

\* C19: an invocation that reaches the parsing of a body that is not JSON
\* answers 400 and never gets to process an update; an invocation with such
\* a body answers anything else only with the 500 of the missing
\* configuration or of the failed initialisation, both decided before the
\* body is parsed.
C19_InvalidJsonIs400 ==
  /\ [][\A p \in Procs :
          (pc[p] = "parsing" /\ ~req[p].valid_json /\ pc'[p] # pc[p]) =>
            /\ pc'[p] = "done"
            /\ resp'[p] = Response(400, "invalid_json")]_vars
  /\ [](\A p \in Procs :
          /\ pc[p] = "processing" => req[p].valid_json
          /\ (pc[p] = "done" /\ ~req[p].valid_json) =>
               \/ resp[p] = Response(400, "invalid_json")
               \/ resp[p] = Response(500, "config_secrets")
               \/ resp[p] = Response(500, "ptb_init_failed")
          /\ resp[p].status_code = 400 => ~req[p].valid_json)
  /\ [][\A p \in Procs :
          (resp'[p].status_code = 500 /\ resp[p] = NoResponse) =>
            pc[p] \in {"idle", "lock_wait", "init_await"}]_vars

\* C19 witness: the invocation that initialised the PTB application itself
\* has answered 400, and another one, which found it stored, is parsing a
\* body that is not JSON.
C19_Witness ==
  /\ ptb_application # None
  /\ \E p, q \in Procs :
       /\ p # q
       /\ pc[p] = "done"
       /\ temp_app[p] = ptb_application
       /\ resp[p] = Response(400, "invalid_json")
       /\ pc[q] = "parsing"
       /\ ~req[q].valid_json

(***************************************************************************)
(* The update handlers: start_command, clear_command, llm_message_handler. *)
(* Each slot handles one update at a time, dispatched by process_update of *)
(* an invocation of main; a slot whose handler has returned ("done") keeps *)
(* what the handler did until it takes the next update.  A step is the     *)
(* code between two awaits.                                                *)
(***************************************************************************)
\* The globals while updates are served: the PTB application is stored and
\* the invocations of main await process_update.
MainServing ==
  /\ critical_secrets_missing = FALSE
  /\ TELEGRAM_BOT_TOKEN = TRUE
  /\ ptb_application = 1
  /\ ptb_bot_instance = 1
  /\ ptb_init_lock = [locked |-> FALSE, waiters |-> <<>>]
  /\ apps_built = 1
  /\ pc = [p \in Procs |-> "processing"]
  /\ req = [p \in Procs |-> [valid_json |-> TRUE]]
  /\ temp_app = [p \in Procs |-> None]
  /\ resp = [p \in Procs |-> NoResponse]
  /\ invocations = NumProcs

\* An empty store and idle handlers.
TurnInit == WindowOff /\ MainServing /\ TurnOff

Called(p, name) == calls' = [calls EXCEPT ![p] = Append(@, name)]

\* process_update hands an update to its handler, which runs to its first
\* await.  The update takes the first free slot.
Dispatch(p) ==
  /\ hpc[p] \in {"idle", "done"}
  /\ \A q \in Handlers : q < p => hpc[q] \notin {"idle", "done"}
  /\ updates < MaxUpdates
  /\ updates' = updates + 1
  /\ \E kind \in UpdateKinds, user \in Users :
       \E text \in TextsOf(kind, updates + 1) :
         /\ update' = [update EXCEPT ![p] =
              [kind |-> kind, effective_user |-> user, text |-> text]]
         /\ hpc' = [hpc EXCEPT ![p] =
              CASE kind = "start" -> "start_save"
                [] kind = "clear" -> "clear_save"
                [] kind = "text" -> "initial_typing"]
  /\ current_turn_history' = [current_turn_history EXCEPT ![p] = <<>>]
  /\ existing_doc_metadata' = [existing_doc_metadata EXCEPT ![p] = EmptyDict]
  /\ is_first_interaction_for_chat' =
       [is_first_interaction_for_chat EXCEPT ![p] = FALSE]
  /\ history_for_llm' = [history_for_llm EXCEPT ![p] = <<>>]
  /\ llm_reply_content' = [llm_reply_content EXCEPT ![p] = DefaultReply]
  /\ calls' = [calls EXCEPT ![p] = <<>>]
  /\ save_ok' = [save_ok EXCEPT ![p] = "none"]
  /\ UNCHANGED <<container, wvars, mvars, svars>>

\* A plausible slip: the reset stores an empty history.
initial_history_empty == <<>>
\* "initial_history = [SYSTEM_MESSAGE.copy()]" (and cleared_history).
initial_history == <<SYSTEM_MESSAGE>>

\* start_command / clear_command: the save with is_initial_creation_or_reset
\* = True completes (or fails, which is only logged); the reply is sent next.
ResetSave(p) ==
  /\ hpc[p] \in {"start_save", "clear_save"}
  /\ \E write_ok \in BOOLEAN :
       /\ container' = Upsert(container,
                              ItemBody(initial_history, update[p].effective_user,
                                       TRUE, EmptyDict),
                              write_ok)
       /\ save_ok' = [save_ok EXCEPT ![p] = UpsertOutcome(write_ok)]
  /\ Called(p, "upsert_item")
  /\ hpc' = [hpc EXCEPT ![p] =
               IF hpc[p] = "start_save" THEN "start_reply" ELSE "clear_reply"]
  /\ UNCHANGED <<update, current_turn_history, existing_doc_metadata,
                 is_first_interaction_for_chat, history_for_llm,
                 llm_reply_content, updates, wvars, mvars, svars>>

\* reply_html / reply_text of the command returns or raises.
ResetReply(p) ==
  /\ hpc[p] \in {"start_reply", "clear_reply"}
  /\ Called(p, IF hpc[p] = "start_reply" THEN "reply_html_greeting"
               ELSE "reply_text_cleared")
  /\ hpc' = [hpc EXCEPT ![p] = "done"]
  /\ UNCHANGED <<container, update, current_turn_history, existing_doc_metadata,
                 is_first_interaction_for_chat, history_for_llm,
                 llm_reply_content, save_ok, updates, wvars, mvars, svars>>

\* llm_message_handler, lines 187-199: the initial typing action returns or
\* raises (caught), then the length check.
LlmInitialTyping(p) ==
  /\ hpc[p] = "initial_typing"
  /\ Called(p, "send_chat_action")
  /\ hpc' = [hpc EXCEPT ![p] =
               IF TooLong(update[p].text) THEN "reject_reply" ELSE "load"]
  /\ UNCHANGED <<container, update, current_turn_history, existing_doc_metadata,
                 is_first_interaction_for_chat, history_for_llm,
                 llm_reply_content, save_ok, updates, wvars, mvars, svars>>

\* line 196: the rejection notice has been sent (or its sending raised).
LlmRejectReply(p) ==
  /\ hpc[p] = "reject_reply"
  /\ Called(p, "reply_text_rejection")
  /\ hpc' = [hpc EXCEPT ![p] = "done"]
  /\ UNCHANGED <<container, update, current_turn_history, existing_doc_metadata,
                 is_first_interaction_for_chat, history_for_llm,
                 llm_reply_content, save_ok, updates, wvars, mvars, svars>>

\* lines 199-214: the load returns; the history is seeded, the user turn
\* appended, the window built, and the typing and completion tasks started.
LlmLoad(p) ==
  /\ hpc[p] = "load"
  /\ \E read_ok \in BOOLEAN :
       LET loaded == get_chat_history_from_cosmos(container, read_ok)
           retrieved_history == loaded[1]
           metadata == loaded[2]
           is_first == IsFirstInteraction(retrieved_history, metadata)
           seeded == SeedHistory(retrieved_history, metadata)
           with_user == Append(seeded, [role |-> "user",
                                        content |-> update[p].text])
       IN  /\ existing_doc_metadata' =
                [existing_doc_metadata EXCEPT ![p] = metadata]
           /\ is_first_interaction_for_chat' =
                [is_first_interaction_for_chat EXCEPT ![p] = is_first]
           /\ current_turn_history' =
                [current_turn_history EXCEPT ![p] = with_user]
           /\ history_for_llm' = [history_for_llm EXCEPT ![p] =
                _prepare_and_truncate_history_for_llm(with_user,
                                                      MAX_CONVERSATION_MESSAGES)]
  /\ Called(p, "read_item")
  /\ hpc' = [hpc EXCEPT ![p] = "await_llm"]
  /\ UNCHANGED <<container, update, llm_reply_content, save_ok, updates, wvars, mvars, svars>>

\* What get_llm_response_from_openrouter can return: the generated text, or
\* its fallback when the completion call raises.  It catches every
\* Exception, so llm_task never raises one into the handler.
CompletionOutcomes == {"generated", "fallback"}

\* lines 214-219: llm_task is done; the stop event is set and the typing
\* task awaited.
LlmCompletion(p) ==
  /\ hpc[p] = "await_llm"
  /\ \E outcome \in CompletionOutcomes :
       llm_reply_content' = [llm_reply_content EXCEPT ![p] =
         IF outcome = "generated" THEN GeneratedReply(update[p].text.id)
         ELSE FallbackReply]
  /\ Called(p, "chat_completions_create")
  /\ hpc' = [hpc EXCEPT ![p] = "stop_typing"]
  /\ UNCHANGED <<container, update, current_turn_history, existing_doc_metadata,
                 is_first_interaction_for_chat, history_for_llm, save_ok,
                 updates, wvars, mvars, svars>>

\* A plausible slip: only a generated text is recorded as an assistant turn.
AppendGeneratedOnly(history, content) ==
  IF content.kind = "generated"
  THEN Append(history, [role |-> "assistant", content |-> content])
  ELSE history
\* line 223: current_turn_history.append({"role": "assistant", ...})
AppendAssistant(history, content) ==
  Append(history, [role |-> "assistant", content |-> content])

\* lines 219-224: the wait for the typing task ends; the assistant turn is
\* appended and the save called.
LlmStopTyping(p) ==
  /\ hpc[p] = "stop_typing"
  /\ current_turn_history' = [current_turn_history EXCEPT ![p] =
       AppendAssistant(@, llm_reply_content[p])]
  /\ hpc' = [hpc EXCEPT ![p] = "save"]
  /\ UNCHANGED <<container, update, existing_doc_metadata,
                 is_first_interaction_for_chat, history_for_llm,
                 llm_reply_content, calls, save_ok, updates, wvars, mvars, svars>>

\* line 224: upsert_item returns or raises (logged); the reply is sent next.
LlmSave(p) ==
  /\ hpc[p] = "save"
  /\ \E write_ok \in BOOLEAN :
       /\ container' = Upsert(container,
            ItemBody(current_turn_history[p], update[p].effective_user,
                     is_first_interaction_for_chat[p],
                     IF ~is_first_interaction_for_chat[p]
                     THEN existing_doc_metadata[p] ELSE EmptyDict),
            write_ok)
       /\ save_ok' = [save_ok EXCEPT ![p] = UpsertOutcome(write_ok)]
  /\ Called(p, "upsert_item")
  /\ hpc' = [hpc EXCEPT ![p] = "reply"]
  /\ UNCHANGED <<update, current_turn_history, existing_doc_metadata,
                 is_first_interaction_for_chat, history_for_llm,
                 llm_reply_content, updates, wvars, mvars, svars>>

\* line 225: reply_text(llm_reply_content) returns or raises; the handler
\* returns and its other locals are gone.
LlmReply(p) ==
  /\ hpc[p] = "reply"
  /\ Called(p, "reply_text_llm")
  /\ hpc' = [hpc EXCEPT ![p] = "done"]
  /\ current_turn_history' = [current_turn_history EXCEPT ![p] = <<>>]
  /\ existing_doc_metadata' = [existing_doc_metadata EXCEPT ![p] = EmptyDict]
  /\ is_first_interaction_for_chat' =
       [is_first_interaction_for_chat EXCEPT ![p] = FALSE]
  /\ history_for_llm' = [history_for_llm EXCEPT ![p] = <<>>]
  /\ UNCHANGED <<container, update, llm_reply_content, save_ok, updates, wvars, mvars, svars>>

HandlerStep(p) ==
  \/ ResetSave(p)
  \/ ResetReply(p)
  \/ LlmInitialTyping(p)
  \/ LlmRejectReply(p)
  \/ LlmLoad(p)
  \/ LlmCompletion(p)
  \/ LlmStopTyping(p)
  \/ LlmSave(p)
  \/ LlmReply(p)

TurnNext == \E p \in Handlers : Dispatch(p) \/ HandlerStep(p)

\* Handlers of concurrent invocations interleave at their awaits.
SpecTurn == TurnInit /\ [][TurnNext]_vars

\* One update at a time: an update is dispatched only when no other handler
\* is running.
SerialDispatch(p) ==
  /\ \A q \in Handlers \ {p} : hpc[q] \in {"idle", "done"}
  /\ Dispatch(p)

SerialNext == \E p \in Handlers : SerialDispatch(p) \/ HandlerStep(p)

SpecSerial == TurnInit /\ [][SerialNext]_vars

(***************************************************************************)
(* SpecStored: the handlers, one update at a time, on a chat whose record  *)
(* already holds a conversation (written by earlier turns).                *)
(***************************************************************************)
\* The conversation turns of a stored history: user and assistant turns in
\* alternation.
StoredTurn(i) ==
  [role |-> IF i % 2 = 1 THEN "user" ELSE "assistant",
   content |-> Text("stored", i, 1)]
StoredHistory(k) == <<SYSTEM_MESSAGE>> \o [i \in 1..k |-> StoredTurn(i)]
\* The numbers of conversation turns tried: around MAX_CONVERSATION_MESSAGES,
\* where the window starts to drop turns, and the shortest ones.
StoredLengths ==
  {0, 1} \cup ((MAX_CONVERSATION_MESSAGES - 2)..MaxStoredTurns)
\* The record of a chat created by user 101, k conversation turns later.
StoredItem(k) ==
  [id |-> ChatId, chat_id |-> ChatId, history |-> StoredHistory(k),
   last_interactor_user_id |-> "101", last_interactor_username |-> "alice",
   creator_user_id |-> "101", creator_username |-> "alice"]

StoredInit ==
  /\ WindowOff
  /\ MainServing
  /\ \E k \in StoredLengths : container = [c \in {ChatId} |-> StoredItem(k)]
  /\ hpc = [p \in Handlers |-> "idle"]
  /\ update = [p \in Handlers |-> EmptyDict]
  /\ current_turn_history = [p \in Handlers |-> <<>>]
  /\ existing_doc_metadata = [p \in Handlers |-> EmptyDict]
  /\ is_first_interaction_for_chat = [p \in Handlers |-> FALSE]
  /\ history_for_llm = [p \in Handlers |-> <<>>]
  /\ llm_reply_content = [p \in Handlers |-> DefaultReply]
  /\ calls = [p \in Handlers |-> <<>>]
  /\ save_ok = [p \in Handlers |-> "none"]
  /\ updates = 0
  /\ SignalOff

SpecStored == StoredInit /\ [][SerialNext]_vars

(***************************************************************************)
(* SpecEmptied: the handlers, one update at a time, on a chat whose record *)
(* may hold metadata with an empty history or with no history field.       *)
(***************************************************************************)
\* A record last written for user 102 (no username); the history is an
\* empty list or the field is missing, the creator fields are there or not.
EmptiedItem(has_history, has_creator) ==
  LET item == ItemBody(<<>>, [id |-> "102", username |-> ""], TRUE, EmptyDict)
  IN  [k \in DOMAIN item \ ((IF has_history THEN {} ELSE {"history"}) \cup
                             (IF has_creator THEN {} ELSE CreatorKeys)) |->
         item[k]]
EmptiedStores ==
  {EmptyDict}
  \cup {[c \in {ChatId} |-> EmptiedItem(h, c2)] : h \in BOOLEAN, c2 \in BOOLEAN}
  \cup {[c \in {ChatId} |-> StoredItem(k)] : k \in {0, 1}}

EmptiedInit ==
  /\ WindowOff
  /\ MainServing
  /\ container \in EmptiedStores
  /\ hpc = [p \in Handlers |-> "idle"]
  /\ update = [p \in Handlers |-> EmptyDict]
  /\ current_turn_history = [p \in Handlers |-> <<>>]
  /\ existing_doc_metadata = [p \in Handlers |-> EmptyDict]
  /\ is_first_interaction_for_chat = [p \in Handlers |-> FALSE]
  /\ history_for_llm = [p \in Handlers |-> <<>>]
  /\ llm_reply_content = [p \in Handlers |-> DefaultReply]
  /\ calls = [p \in Handlers |-> <<>>]
  /\ save_ok = [p \in Handlers |-> "none"]
  /\ updates = 0
  /\ SignalOff

SpecEmptied == EmptiedInit /\ [][SerialNext]_vars

(***************************************************************************)
(* SpecSignal: llm_message_handler, one message at a time, with the two    *)
(* tasks of its concurrent section as coroutines of the event loop:        *)
(* send_typing_periodically (typing_task) and                              *)
(* get_llm_response_from_openrouter (llm_task).  faults records the        *)
(* failures that leave no other trace in the state.                        *)
(***************************************************************************)
\* "Whoa there, Shakespeare! Keep it under 2000 chars, 'kay?"
RejectionNotice == Text("rejection_notice", 0, 56)

\* The slot of the handler whose concurrent section is followed.
SignalHandlers == {1}

Fault(ok, name) == IF ok THEN {} ELSE {name}

\* A plausible slip: the loop never looks at the event.
LoopConditionAlways == TRUE
\* "while not stop_event.is_set()"
LoopCondition == ~stop_typing_event

\* A plausible slip: the failed delivery is retried.
TypingAfterFailedDeliveryRetries == "loop_test"
\* "except Exception as e: ...; break": the task returns.
TypingAfterFailedDelivery == "finished"

\* A plausible slip: the typing task is left running when the wait expires.
TypingLeftRunning == typing_task
\* The typing task after the 0.5 seconds expired: asyncio.wait_for cancels
\* the task it waited for before it raises TimeoutError, and line 220 calls
\* typing_task.cancel() again.
TypingAfterJoinTimeout == "cancelled"

\* A plausible slip: a failed save is tried again.
AfterSaveRetries(write_ok) == IF write_ok THEN "reply" ELSE "save"

\* A plausible slip: the exception of upsert_item escapes and ends the
\* handler.
AfterSaveUncaught(write_ok) == IF write_ok THEN "reply" ELSE "done"
\* Where the handler goes on after save_chat_history_to_cosmos: the save
\* catches every Exception of upsert_item, so to the reply in both cases.
AfterSave(write_ok) == "reply"

\* A text message is handed to llm_message_handler, which runs to its first
\* await (the initial typing action).
SignalDispatch(p) ==
  /\ hpc[p] \in {"idle", "done"}
  /\ updates < MaxSignalTurns
  /\ updates' = updates + 1
  /\ \E user \in Users :
       \E text \in TextsOf("text", updates + 1) :
         update' = [update EXCEPT ![p] =
           [kind |-> "text", effective_user |-> user, text |-> text]]
  /\ hpc' = [hpc EXCEPT ![p] = "initial_typing"]
  /\ current_turn_history' = [current_turn_history EXCEPT ![p] = <<>>]
  /\ existing_doc_metadata' = [existing_doc_metadata EXCEPT ![p] = EmptyDict]
  /\ is_first_interaction_for_chat' =
       [is_first_interaction_for_chat EXCEPT ![p] = FALSE]
  /\ history_for_llm' = [history_for_llm EXCEPT ![p] = <<>>]
  /\ llm_reply_content' = [llm_reply_content EXCEPT ![p] = DefaultReply]
  /\ calls' = [calls EXCEPT ![p] = <<>>]
  /\ save_ok' = [save_ok EXCEPT ![p] = "none"]
  /\ stop_typing_event' = FALSE
  /\ typing_task' = "none"
  /\ llm_task' = "none"
  /\ typing_sent' = 0
  /\ faults' = {}
  /\ history_saved' = <<>>
  /\ reply_sent' = NoText
  /\ UNCHANGED <<container, wvars, mvars>>

\* lines 187-196: the initial typing action returns or raises (the exception
\* is caught and logged), then the length check.
SignalInitialTyping(p) ==
  /\ hpc[p] = "initial_typing"
  /\ \E ok \in BOOLEAN : faults' = faults \cup Fault(ok, "initial_typing")
  /\ Called(p, "send_chat_action")
  /\ hpc' = [hpc EXCEPT ![p] =
               IF TooLong(update[p].text) THEN "reject_reply" ELSE "load"]
  /\ UNCHANGED <<container, update, current_turn_history, existing_doc_metadata,
                 is_first_interaction_for_chat, history_for_llm,
                 llm_reply_content, save_ok, updates, stop_typing_event,
                 typing_task, llm_task, typing_sent, history_saved, reply_sent,
                 wvars, mvars>>

\* line 196: reply_text(rejection) returns or raises; the handler is over.
SignalRejectReply(p) ==
  /\ hpc[p] = "reject_reply"
  /\ reply_sent' = RejectionNotice
  /\ Called(p, "reply_text_rejection")
  /\ hpc' = [hpc EXCEPT ![p] = "done"]
  /\ UNCHANGED <<container, update, current_turn_history, existing_doc_metadata,
                 is_first_interaction_for_chat, history_for_llm,
                 llm_reply_content, save_ok, updates, stop_typing_event,
                 typing_task, llm_task, typing_sent, faults, history_saved,
                 wvars, mvars>>

\* lines 199-214: the load returns (a failed read returns ([], {})); the
\* history is seeded, the user turn appended, the window built, both tasks
\* created, and the handler awaits llm_task.
SignalLoad(p) ==
  /\ hpc[p] = "load"
  /\ \E read_ok \in BOOLEAN :
       LET loaded == get_chat_history_from_cosmos(container, read_ok)
           retrieved_history == loaded[1]
           metadata == loaded[2]
           with_user == Append(SeedHistory(retrieved_history, metadata),
                               [role |-> "user", content |-> update[p].text])
       IN  /\ existing_doc_metadata' =
                [existing_doc_metadata EXCEPT ![p] = metadata]
           /\ is_first_interaction_for_chat' =
                [is_first_interaction_for_chat EXCEPT ![p] =
                   retrieved_history = <<>> /\ ~Truthy(metadata)]
           /\ current_turn_history' =
                [current_turn_history EXCEPT ![p] = with_user]
           /\ history_for_llm' = [history_for_llm EXCEPT ![p] =
                _prepare_and_truncate_history_for_llm(with_user,
                                                      MAX_CONVERSATION_MESSAGES)]
           /\ faults' = faults \cup Fault(read_ok, "read")
  /\ Called(p, "read_item")
  /\ typing_task' = "created"
  /\ llm_task' = "created"
  /\ hpc' = [hpc EXCEPT ![p] = "await_llm"]
  /\ UNCHANGED <<container, update, llm_reply_content, save_ok, updates,
                 stop_typing_event, typing_sent, history_saved, reply_sent,
                 wvars, mvars>>

\* send_typing_periodically, line 153 to the await of line 157: the loop
\* condition, then the typing action is started.  With the event set the
\* loop, and the task, end.
TypingLoop ==
  /\ typing_task \in {"created", "loop_test"}
  /\ IF LoopCondition
     THEN /\ typing_sent < MaxTypingSent
          /\ typing_sent' = typing_sent + 1
          /\ typing_task' = "sending"
     ELSE /\ typing_task' = "finished"
          /\ UNCHANGED typing_sent
  /\ UNCHANGED <<stop_typing_event, llm_task, faults, history_saved, reply_sent,
                 wvars, mvars, tvars>>

\* lines 157-166: send_chat_action returns, and the task waits for the event
\* (at most 4 seconds); or it raises, which ends the loop.
TypingSendReturns ==
  /\ typing_task = "sending"
  /\ \E ok \in BOOLEAN :
       /\ typing_task' = IF ok THEN "waiting" ELSE TypingAfterFailedDelivery
       /\ faults' = faults \cup Fault(ok, "typing")
  /\ UNCHANGED <<stop_typing_event, llm_task, typing_sent, history_saved,
                 reply_sent, wvars, mvars, tvars>>

\* lines 163-164: the wait on the event completes: break.
TypingWaitEnds ==
  /\ typing_task = "waiting"
  /\ stop_typing_event
  /\ typing_task' = "finished"
  /\ UNCHANGED <<stop_typing_event, llm_task, typing_sent, faults, history_saved,
                 reply_sent, wvars, mvars, tvars>>

\* line 165: the 4 seconds are over (the event may have been set in the same
\* moment): TimeoutError, pass, back to the loop condition.
TypingWaitTimesOut ==
  /\ typing_task = "waiting"
  /\ typing_task' = "loop_test"
  /\ UNCHANGED <<stop_typing_event, llm_task, typing_sent, faults, history_saved,
                 reply_sent, wvars, mvars, tvars>>

TypingStep ==
  \/ TypingLoop
  \/ TypingSendReturns
  \/ TypingWaitEnds
  \/ TypingWaitTimesOut

\* What becomes of llm_task: get_llm_response_from_openrouter returns the
\* generated text, returns its fallback (the completion call raised), or
\* lets an exception escape (its lines 124-126 are outside its try).
LlmTaskOutcomes == {"generated", "fallback", "raised"}

\* llm_task runs; it has no await, so it is one step.  It was created after
\* typing_task, which therefore has run to its first await before.
LlmTaskRuns(p) ==
  /\ llm_task = "created"
  /\ typing_task # "created"
  /\ \E outcome \in LlmTaskOutcomes :
       /\ llm_task' = outcome
       /\ IF outcome = "raised" THEN UNCHANGED calls
          ELSE Called(p, "chat_completions_create")
  /\ UNCHANGED <<container, hpc, update, current_turn_history,
                 existing_doc_metadata, is_first_interaction_for_chat,
                 history_for_llm, llm_reply_content, save_ok, updates,
                 stop_typing_event, typing_task, typing_sent, faults,
                 history_saved, reply_sent, wvars, mvars>>

\* lines 214-219: "await llm_task" returns or raises (caught, the default
\* text stays); finally: the event is set and the typing task awaited for at
\* most 0.5 seconds.
SignalCompletion(p) ==
  /\ hpc[p] = "await_llm"
  /\ llm_task \in LlmTaskOutcomes
  /\ llm_reply_content' = [llm_reply_content EXCEPT ![p] =
       CASE llm_task = "generated" -> GeneratedReply(update[p].text.id)
         [] llm_task = "fallback" -> FallbackReply
         [] llm_task = "raised" -> @]
  /\ stop_typing_event' = TRUE
  /\ hpc' = [hpc EXCEPT ![p] = "stop_typing"]
  /\ UNCHANGED <<container, update, current_turn_history, existing_doc_metadata,
                 is_first_interaction_for_chat, history_for_llm, calls, save_ok,
                 updates, typing_task, llm_task, typing_sent, faults,
                 history_saved, reply_sent, wvars, mvars>>

\* lines 219-224: the typing task has ended within the 0.5 seconds; the
\* assistant turn is appended and the save called.
SignalTypingJoined(p) ==
  /\ hpc[p] = "stop_typing"
  /\ typing_task = "finished"
  /\ current_turn_history' = [current_turn_history EXCEPT ![p] =
       AppendAssistant(@, llm_reply_content[p])]
  /\ hpc' = [hpc EXCEPT ![p] = "save"]
  /\ UNCHANGED <<container, update, existing_doc_metadata,
                 is_first_interaction_for_chat, history_for_llm,
                 llm_reply_content, calls, save_ok, updates, svars, wvars, mvars>>

\* lines 219-224: the 0.5 seconds are over with the typing task still
\* running: wait_for cancels it and raises TimeoutError, the handler calls
\* typing_task.cancel(), appends the assistant turn and calls the save.
SignalTypingTimeout(p) ==
  /\ hpc[p] = "stop_typing"
  /\ typing_task \in {"created", "loop_test", "sending", "waiting"}
  /\ typing_task' = TypingAfterJoinTimeout
  /\ current_turn_history' = [current_turn_history EXCEPT ![p] =
       AppendAssistant(@, llm_reply_content[p])]
  /\ hpc' = [hpc EXCEPT ![p] = "save"]
  /\ UNCHANGED <<container, update, existing_doc_metadata,
                 is_first_interaction_for_chat, history_for_llm,
                 llm_reply_content, calls, save_ok, updates, stop_typing_event,
                 llm_task, typing_sent, faults, history_saved, reply_sent,
                 wvars, mvars>>

\* line 224: upsert_item returns or raises (logged); the reply is sent next.
SignalSave(p) ==
  /\ hpc[p] = "save"
  /\ \E write_ok \in BOOLEAN :
       /\ container' = Upsert(container,
            ItemBody(current_turn_history[p], update[p].effective_user,
                     is_first_interaction_for_chat[p],
                     IF ~is_first_interaction_for_chat[p]
                     THEN existing_doc_metadata[p] ELSE EmptyDict),
            write_ok)
       /\ save_ok' = [save_ok EXCEPT ![p] = UpsertOutcome(write_ok)]
       /\ hpc' = [hpc EXCEPT ![p] = AfterSave(write_ok)]
  /\ history_saved' = current_turn_history[p]
  /\ Called(p, "upsert_item")
  /\ UNCHANGED <<update, current_turn_history, existing_doc_metadata,
                 is_first_interaction_for_chat, history_for_llm,
                 llm_reply_content, updates, stop_typing_event, typing_task,
                 llm_task, typing_sent, faults, reply_sent, wvars, mvars>>

\* line 225: reply_text(llm_reply_content) returns or raises; the handler
\* returns and its other locals are gone.
SignalReply(p) ==
  /\ hpc[p] = "reply"
  /\ reply_sent' = llm_reply_content[p]
  /\ Called(p, "reply_text_llm")
  /\ hpc' = [hpc EXCEPT ![p] = "done"]
  /\ current_turn_history' = [current_turn_history EXCEPT ![p] = <<>>]
  /\ existing_doc_metadata' = [existing_doc_metadata EXCEPT ![p] = EmptyDict]
  /\ is_first_interaction_for_chat' =
       [is_first_interaction_for_chat EXCEPT ![p] = FALSE]
  /\ history_for_llm' = [history_for_llm EXCEPT ![p] = <<>>]
  /\ UNCHANGED <<container, update, llm_reply_content, save_ok, updates,
                 stop_typing_event, typing_task, llm_task, typing_sent, faults,
                 history_saved, wvars, mvars>>

\* The steps of the handler itself.
SignalHandlerStep(p) ==
  \/ SignalInitialTyping(p)
  \/ SignalRejectReply(p)
  \/ SignalLoad(p)
  \/ SignalCompletion(p)
  \/ SignalTypingJoined(p)
  \/ SignalTypingTimeout(p)
  \/ SignalSave(p)
  \/ SignalReply(p)

SignalNext ==
  \/ TypingStep
  \/ \E p \in SignalHandlers :
       \/ SignalDispatch(p)
       \/ SignalHandlerStep(p)
       \/ LlmTaskRuns(p)

SpecSignal == TurnInit /\ [][SignalNext]_vars

\* The event loop runs every task that can run, and every awaited call of a
\* collaborator returns or raises.
FairSpecSignal ==
  /\ SpecSignal
  /\ WF_vars(TypingStep)
  /\ \A p \in SignalHandlers :
       WF_vars(SignalHandlerStep(p)) /\ WF_vars(LlmTaskRuns(p))

(***************************************************************************)
(* Claims on the conversation turns                                        *)
(***************************************************************************)
IsPrefix(s, t) == Len(s) <= Len(t) /\ s = SubSeq(t, 1, Len(s))
HasItem == ChatId \in DOMAIN container
HasCreator == HasItem /\ "creator_user_id" \in DOMAIN container[ChatId]
\* handler p completes the save of a conversational turn in this step
TurnSaveStep(p) == hpc[p] = "save" /\ hpc'[p] = "reply"
\* slot p is handling (or has handled) a text message
HandlesText(p) == hpc[p] # "idle" /\ update[p].kind = "text"
RejectedCalls == <<"send_chat_action", "reply_text_rejection">>
NormalTurnCalls == <<"send_chat_action", "read_item", "chat_completions_create",
                     "upsert_item", "reply_text_llm">>

\* C1: once the record carries creator fields, the save of a conversational
\* turn never changes them.
C1_CreatorNeverChangedByTurn ==
  [][\A p \in Handlers :
       (TurnSaveStep(p) /\ HasCreator) =>
         /\ container'[ChatId].creator_user_id = container[ChatId].creator_user_id
         /\ container'[ChatId].creator_username = container[ChatId].creator_username]_vars

\* C2: with one update handled at a time, the save of a conversational turn
\* writes a history that has the previously persisted history as a prefix.
C2_HistoryNeverTruncated ==
  [][\A p \in Handlers :
       (TurnSaveStep(p) /\ HasItem) =>
         IsPrefix(container[ChatId].history, container'[ChatId].history)]_vars

\* C10: a text longer than MAX_USER_MESSAGE_LENGTH gets the rejection notice
\* and no store read, store write or completion call, and no step of its
\* handler changes the record; a text of exactly MAX_USER_MESSAGE_LENGTH
\* characters goes through the whole turn.
C10_InputLengthGuard ==
  /\ [](\A p \in Handlers :
          HandlesText(p) =>
            IF update[p].text.len > MAX_USER_MESSAGE_LENGTH
            THEN /\ IsPrefix(calls[p], RejectedCalls)
                 /\ hpc[p] = "done" => calls[p] = RejectedCalls
            ELSE /\ IsPrefix(calls[p], NormalTurnCalls)
                 /\ hpc[p] = "done" => calls[p] = NormalTurnCalls)
  /\ [][\A p \in Handlers :
          (/\ HandlesText(p)
           /\ update[p].text.len > MAX_USER_MESSAGE_LENGTH
           /\ hpc'[p] # hpc[p]) => container' = container]_vars

\* C10 witness: with a record stored, one handler has rejected a text of
\* MAX_USER_MESSAGE_LENGTH + 1 characters and another has completed the turn
\* of a text of exactly MAX_USER_MESSAGE_LENGTH characters.
C10_Witness ==
  /\ HasItem
  /\ \E p, q \in Handlers :
       /\ hpc[p] = "done" /\ hpc[q] = "done"
       /\ update[p].kind = "text" /\ update[q].kind = "text"
       /\ update[p].text.len = MAX_USER_MESSAGE_LENGTH + 1
       /\ calls[p] = RejectedCalls
       /\ update[q].text.len = MAX_USER_MESSAGE_LENGTH
       /\ calls[q] = NormalTurnCalls

\* handler p completes the save of a reset command in this step
ResetSaveStep(p) ==
  hpc[p] \in {"start_save", "clear_save"} /\ hpc'[p] \in {"start_reply", "clear_reply"}
StoredName(user) == IF user.username # "" THEN user.username ELSE "N/A"
\* the record holds exactly one system turn and names user as its creator
FreshRecordOf(store, user) ==
  /\ ChatId \in DOMAIN store
  /\ store[ChatId].history = <<SYSTEM_MESSAGE>>
  /\ DictGet(store[ChatId], "creator_user_id", "") = user.id
  /\ DictGet(store[ChatId], "creator_username", "") = StoredName(user)

\* C13: the successful save of a /start or /clear leaves a record whose
\* history is exactly one system turn and whose creator fields name the
\* user of the command, whatever was stored before; with one update handled
\* at a time that is the record found when the command has completed.
C13_ResetPostcondition ==
  /\ [][\A p \in Handlers :
          (ResetSaveStep(p) /\ save_ok'[p] = "ok") =>
            FreshRecordOf(container', update[p].effective_user)]_vars
  /\ [](\A p \in Handlers :
          (/\ hpc[p] = "done"
           /\ update[p].kind \in {"start", "clear"}
           /\ save_ok[p] = "ok") =>
            FreshRecordOf(container, update[p].effective_user))

\* C13 witness: a /clear of the user without username, sent after two
\* other updates, has completed with a successful save.
C13_Witness ==
  \E p \in Handlers :
    /\ hpc[p] = "done"
    /\ update[p].kind = "clear"
    /\ update[p].effective_user.id = "102"
    /\ save_ok[p] = "ok"
    /\ updates = 3
    /\ container[ChatId].creator_user_id = "102"
    /\ container[ChatId].creator_username = "N/A"
    /\ Len(container[ChatId].history) = 1

\* C14: with one update handled at a time, a successful save made with
\* is_initial_creation_or_reset = False (its metadata being the one the
\* handler's load returned) leaves the creator fields of the record as they
\* were, whoever the interacting user is.
C14_CreatorProvenance ==
  [][\A p \in Handlers :
       (/\ TurnSaveStep(p)
        /\ ~is_first_interaction_for_chat[p]
        /\ save_ok'[p] = "ok"
        /\ HasCreator) =>
         /\ DictGet(container'[ChatId], "creator_user_id", "") =
              container[ChatId].creator_user_id
         /\ DictGet(container'[ChatId], "creator_username", "") =
              container[ChatId].creator_username]_vars

\* C14 witness: the record created by user 101 has been saved twice with
\* is_initial_creation_or_reset = False, the last time by user 102, and
\* still names 101 as its creator.
C14_Witness ==
  \E p \in Handlers :
    /\ hpc[p] = "reply"
    /\ ~is_first_interaction_for_chat[p]
    /\ save_ok[p] = "ok"
    /\ update[p].effective_user.id = "102"
    /\ container[ChatId].last_interactor_user_id = "102"
    /\ container[ChatId].creator_user_id = "101"
    /\ container[ChatId].creator_username = "alice"
    /\ Len(container[ChatId].history) >= 5

(***************************************************************************)
(* SpecWindow: the window builder applied to every bounded input, then to  *)
(* its own output.                                                         *)
(***************************************************************************)
WindowContents == {"a", "b"}
WindowTurns == [role : Roles, content : WindowContents]
WindowHistories == UNION {[1..k -> WindowTurns] : k \in 0..MaxLen}

WindowInit ==
  /\ MainOff
  /\ TurnOff
  /\ full_history \in WindowHistories
  /\ max_messages \in 0..MaxN
  /\ final_prepared_history = <<>>
  /\ reapplied = <<>>
  /\ wstage = "input"
  /\ save_args = EmptyDict
  /\ item_body = EmptyDict
  /\ sstage = "off"

WindowApply ==
  /\ wstage = "input"
  /\ final_prepared_history' =
       _prepare_and_truncate_history_for_llm(full_history, max_messages)
  /\ wstage' = "applied"
  /\ UNCHANGED <<full_history, max_messages, reapplied, pvars, mvars, tvars,
                 svars>>

WindowReapply ==
  /\ wstage = "applied"
  /\ reapplied' =
       _prepare_and_truncate_history_for_llm(final_prepared_history, max_messages)
  /\ wstage' = "reapplied"
  /\ UNCHANGED <<full_history, max_messages, final_prepared_history, pvars,
                 mvars, tvars, svars>>

WindowNext == WindowApply \/ WindowReapply

SpecWindow == WindowInit /\ [][WindowNext]_vars

(***************************************************************************)
(* SpecSave: save_chat_history_to_cosmos of either entry point builds its  *)
(* item_body from bounded arguments.                                       *)
(***************************************************************************)
\* what a load returns as metadata for a record written by user u, with
\* the fields of `missing` absent from the record
MetadataOf(u, missing) ==
  LET item == ItemBody(<<SYSTEM_MESSAGE>>, u, TRUE, EmptyDict)
  IN  [k \in DOMAIN item \ ({"history"} \cup missing) |-> item[k]]
SaveMetadata ==
  {EmptyDict} \cup {MetadataOf(u, m) : u \in Users, m \in SUBSET CreatorKeys}
SaveHistories ==
  {<<SYSTEM_MESSAGE>>,
   <<SYSTEM_MESSAGE, [role |-> "user", content |-> Text("text", 1, 5)],
     [role |-> "assistant", content |-> GeneratedReply(1)]>>}
SaveArguments ==
  [entry : EntryPoints, history_list : SaveHistories, user : Users,
   is_initial_creation_or_reset : BOOLEAN, existing_metadata : SaveMetadata]

SaveInit ==
  /\ MainOff
  /\ TurnOff
  /\ full_history = <<>>
  /\ max_messages = 0
  /\ final_prepared_history = <<>>
  /\ reapplied = <<>>
  /\ wstage = "off"
  /\ save_args \in SaveArguments
  /\ item_body = EmptyDict
  /\ sstage = "input"

SaveApply ==
  /\ sstage = "input"
  /\ item_body' =
       ItemBodyOf(save_args.entry, save_args.history_list, save_args.user,
                  save_args.is_initial_creation_or_reset,
                  save_args.existing_metadata)
  /\ sstage' = "applied"
  /\ UNCHANGED <<save_args, full_history, max_messages,
                 final_prepared_history, reapplied, wstage, mvars, tvars,
                 svars>>

SaveNext == SaveApply

SpecSave == SaveInit /\ [][SaveNext]_vars

(***************************************************************************)
(* Helpers of the window claims                                            *)
(***************************************************************************)
SystemCount(h) == Cardinality({i \in 1..Len(h) : h[i].role = "system"})
LeadingSystem(h) == h # <<>> /\ h[1].role = "system"
ConversationPart(h) == IF LeadingSystem(h) THEN Tail(h) ELSE h
\* the part of the window after the system turn detached from the input
WindowConversationPart ==
  IF LeadingSystem(full_history) /\ final_prepared_history # <<>>
  THEN Tail(final_prepared_history) ELSE final_prepared_history
IsSuffix(s, t) ==
  Len(s) <= Len(t) /\ s = SubSeq(t, Len(t) - Len(s) + 1, Len(t))
LastN(s, n) == SubSeq(s, Len(s) - n + 1, Len(s))
NoLaterSystem(h) == \A i \in 2..Len(h) : h[i].role # "system"
WindowApplied == wstage \in {"applied", "reapplied"}

\* C3: for every history and every N >= 0 the window has at most N+1
\* entries.
C3_WindowLengthBound ==
  WindowApplied => Len(final_prepared_history) <= max_messages + 1

\* C4 as stated: a leading system turn of the input is the window's only
\* system turn, at position 0; without a leading system turn the window has
\* no system turn.
C4_SystemTurnAnyHistory ==
  WindowApplied =>
    IF LeadingSystem(full_history)
    THEN /\ final_prepared_history # <<>>
         /\ final_prepared_history[1] = full_history[1]
         /\ SystemCount(final_prepared_history) = 1
    ELSE SystemCount(final_prepared_history) = 0

\* C4 amended: the same, for the histories that hold no system turn after
\* position 0.
C4_SystemTurnWellFormed ==
  (WindowApplied /\ NoLaterSystem(full_history)) =>
    IF LeadingSystem(full_history)
    THEN /\ final_prepared_history # <<>>
         /\ final_prepared_history[1] = full_history[1]
         /\ SystemCount(final_prepared_history) = 1
    ELSE SystemCount(final_prepared_history) = 0

\* C4 witness: a well-formed history with a leading system turn was
\* truncated.
C4_Witness ==
  /\ WindowApplied
  /\ NoLaterSystem(full_history)
  /\ LeadingSystem(full_history)
  /\ max_messages >= 1
  /\ Len(full_history) - 1 > max_messages
  /\ Len(final_prepared_history) < Len(full_history)

\* C5: the window's conversation part is a suffix of the input's
\* conversation part, and is its last N entries when the input has more
\* than N conversation turns.
C5_OldestDroppedFirst ==
  WindowApplied =>
    /\ IsSuffix(WindowConversationPart, ConversationPart(full_history))
    /\ Len(ConversationPart(full_history)) > max_messages =>
         WindowConversationPart = LastN(ConversationPart(full_history), max_messages)

\* C6: applying the window builder to its own output with the same N
\* returns that output.
C6_Idempotent ==
  wstage = "reapplied" => reapplied = final_prepared_history

\* C6 witness: the first application truncated, and the second was made.
C6_Witness ==
  /\ wstage = "reapplied"
  /\ max_messages >= 1
  /\ Len(final_prepared_history) < Len(full_history)
  /\ reapplied = final_prepared_history

(***************************************************************************)
(* Claims on the histories persisted by the handlers                       *)
(***************************************************************************)
\* C17: starting from an empty store, under concurrent turns and resets with
\* store and completion failures, the history of the record never holds a
\* system turn after position 0 (so at most one, at position 0).
C17_PersistedSystemTurn ==
  HasItem =>
    /\ NoLaterSystem(container[ChatId].history)
    /\ SystemCount(container[ChatId].history) <= 1

\* C17 witness: a record that went through several turns, one handler's
\* save having failed, while another handler is still running.
C17_Witness ==
  /\ HasItem
  /\ Len(container[ChatId].history) >= 5
  /\ container[ChatId].history[1].role = "system"
  /\ \E p, q \in Handlers :
       /\ save_ok[p] = "failed"
       /\ hpc[q] \notin {"idle", "done"}

\* handler p's load returns in this step and the window is built
TurnLoadStep(p) == hpc[p] = "load" /\ hpc'[p] = "await_llm"
UserTurnOf(p) == [role |-> "user", content |-> update[p].text]
AssistantTurnOf(p) == [role |-> "assistant", content |-> llm_reply_content[p]]

\* C12: for a record whose history is a system turn and k conversation
\* turns, the window built for an accepted message is the system turn and
\* the last min(k+1, MAX_CONVERSATION_MESSAGES) turns of the conversation
\* with the new user turn, and the history saved has the k+3 turns: the
\* stored ones, the user turn and the assistant turn.
C12_WindowBoundedStoreUnbounded ==
  /\ [][\A p \in Handlers :
          (TurnLoadStep(p) /\ HasItem /\ LeadingSystem(container[ChatId].history)) =>
            LET stored == container[ChatId].history
                k == Len(stored) - 1
                conversation == Append(Tail(stored), UserTurnOf(p))
            IN  /\ Len(history_for_llm'[p]) = 1 + Min(k + 1, MAX_CONVERSATION_MESSAGES)
                /\ history_for_llm'[p] =
                     <<stored[1]>> \o
                       LastN(conversation, Min(k + 1, MAX_CONVERSATION_MESSAGES))]_vars
  /\ [][\A p \in Handlers :
          (/\ TurnSaveStep(p) /\ save_ok'[p] = "ok"
           /\ HasItem /\ LeadingSystem(container[ChatId].history)) =>
            LET stored == container[ChatId].history
            IN  /\ Len(container'[ChatId].history) = Len(stored) - 1 + 3
                /\ container'[ChatId].history =
                     stored \o <<UserTurnOf(p), AssistantTurnOf(p)>>]_vars

(***************************************************************************)
(* Claims on one conversational turn and its concurrent section            *)
(***************************************************************************)
\* the last call of handler p was a reply to the user, with a text
ReplyAttempted(p) ==
  /\ reply_sent # NoText
  /\ calls[p] # <<>>
  /\ calls[p][Len(calls[p])] \in {"reply_text_rejection", "reply_text_llm"}
\* the text llm_reply_content holds for each end of llm_task
ReplyOfOutcome(p) ==
  CASE llm_task = "generated" -> GeneratedReply(update[p].text.id)
    [] llm_task = "fallback" -> FallbackReply
    [] llm_task = "raised" -> DefaultReply
TypingStopped == typing_task \in {"finished", "cancelled"}

\* C11: when the chat has no record, the successful save of an accepted
\* message creates a record whose history is exactly the system turn, the
\* user turn with the inbound text and the assistant turn, whose creator is
\* the sender; the text of that assistant turn is the text sent as reply.
C11_NewChatRecord ==
  /\ [][\A p \in SignalHandlers :
          (TurnSaveStep(p) /\ ~HasItem /\ save_ok'[p] = "ok") =>
            /\ ChatId \in DOMAIN container'
            /\ container'[ChatId].history =
                 <<SYSTEM_MESSAGE, UserTurnOf(p), AssistantTurnOf(p)>>
            /\ DictGet(container'[ChatId], "creator_user_id", "") =
                 update[p].effective_user.id
            /\ DictGet(container'[ChatId], "creator_username", "") =
                 StoredName(update[p].effective_user)]_vars
  /\ [][\A p \in SignalHandlers :
          (/\ hpc[p] = "reply" /\ hpc'[p] = "done"
           /\ save_ok[p] = "ok"
           /\ is_first_interaction_for_chat[p]) =>
            /\ Len(container[ChatId].history) = 3
            /\ container[ChatId].history[2].content = update[p].text
            /\ container[ChatId].history[3].content = reply_sent']_vars

\* C11 witness: the first message of a chat, of the longest accepted length
\* and sent by the user without username, has been read, answered with a
\* generated text, saved and replied to, no store operation failing.
C11_Witness ==
  \E p \in SignalHandlers :
    /\ hpc[p] = "done"
    /\ updates = 1
    /\ "read" \notin faults
    /\ save_ok[p] = "ok"
    /\ llm_task = "generated"
    /\ update[p].text.len = MAX_USER_MESSAGE_LENGTH
    /\ Len(container[ChatId].history) = 3
    /\ container[ChatId].history[3].content = reply_sent
    /\ container[ChatId].creator_user_id = "102"

\* C15: no failure ends llm_message_handler before it attempts a reply: the
\* handler ends only from one of its two reply calls, a handler that has
\* ended has made that call as its last one, and every handler started
\* gets there.
C15_ReplyAlwaysAttempted ==
  /\ [](\A p \in SignalHandlers : hpc[p] = "done" => ReplyAttempted(p))
  /\ [][\A p \in SignalHandlers :
          (hpc[p] # "done" /\ hpc'[p] = "done") =>
            hpc[p] \in {"reject_reply", "reply"}]_vars
  /\ \A p \in SignalHandlers :
       (hpc[p] = "initial_typing") ~> (hpc[p] = "done" /\ ReplyAttempted(p))

\* C15 witness: the initial typing action, the read, a typing action of the
\* typing task, the completion and the write have all failed in one turn,
\* and the reply has been attempted.
C15_Witness ==
  \E p \in SignalHandlers :
    /\ hpc[p] = "done"
    /\ faults = {"initial_typing", "read", "typing"}
    /\ llm_task = "raised"
    /\ save_ok[p] = "failed"
    /\ calls[p][Len(calls[p])] = "reply_text_llm"
    /\ reply_sent = DefaultReply

\* C16: however llm_task ends (generated text, fallback, exception), the
\* handler appends exactly one assistant turn, after the user turn, between
\* the load and the save; the history passed to the save ends with it, and
\* its content is the text passed to reply_text.
C16_AssistantTurnIsReply ==
  /\ [][\A p \in SignalHandlers :
          (hpc[p] = "stop_typing" /\ hpc'[p] = "save") =>
            /\ current_turn_history[p][Len(current_turn_history[p])] = UserTurnOf(p)
            /\ llm_reply_content[p] = ReplyOfOutcome(p)
            /\ current_turn_history'[p] =
                 Append(current_turn_history[p], AssistantTurnOf(p))]_vars
  /\ [][\A p \in SignalHandlers :
          (hpc[p] \in {"await_llm", "save"}) =>
            current_turn_history'[p] = current_turn_history[p]]_vars
  /\ [][\A p \in SignalHandlers :
          TurnSaveStep(p) =>
            /\ history_saved' = current_turn_history[p]
            /\ save_ok'[p] = "ok" => container'[ChatId].history = history_saved']_vars
  /\ [](\A p \in SignalHandlers :
          (hpc[p] = "done" /\ ~TooLong(update[p].text)) =>
            LET n == Len(history_saved)
            IN  /\ n >= 3
                /\ history_saved[n] =
                     [role |-> "assistant", content |-> reply_sent]
                /\ history_saved[n - 1] = UserTurnOf(p)
                /\ reply_sent = ReplyOfOutcome(p))

\* C16 witness: llm_task raised, and the default text has been saved as
\* the assistant turn and sent as the reply.
C16_Witness ==
  \E p \in SignalHandlers :
    /\ hpc[p] = "done"
    /\ llm_task = "raised"
    /\ save_ok[p] = "ok"
    /\ reply_sent = DefaultReply
    /\ container[ChatId].history[Len(container[ChatId].history)] =
         [role |-> "assistant", content |-> DefaultReply]

\* C20: once stop_typing_event is set the typing task starts no typing
\* action; at the loop condition it ends, the wait on the event ends it or
\* sends it to the loop condition, and it always ends.
C20_SignalerStops ==
  /\ [][stop_typing_event =>
          /\ typing_sent' <= typing_sent
          /\ typing_task # "sending" => typing_task' # "sending"]_vars
  /\ [][(/\ stop_typing_event
         /\ typing_task \in {"created", "loop_test"}
         /\ typing_task' # typing_task) =>
           typing_task' \in {"finished", "cancelled", "none"}]_vars
  /\ [][(/\ stop_typing_event
         /\ typing_task = "waiting"
         /\ typing_task' # typing_task) =>
           typing_task' \in {"finished", "loop_test", "cancelled"}]_vars
  /\ stop_typing_event ~> TypingStopped

\* C20 witness: the event is set, and the typing task, which had started
\* its typing actions without a failure, has returned while the handler
\* still waits for it.
C20_Witness ==
  \E p \in SignalHandlers :
    /\ stop_typing_event
    /\ hpc[p] = "stop_typing"
    /\ typing_task = "finished"
    /\ typing_sent >= 2
    /\ "typing" \notin faults

\* the calls of an accepted turn whose llm_task raised before its call
RaisedTurnCalls ==
  <<"send_chat_action", "read_item", "upsert_item", "reply_text_llm">>
CountOf(name, s) == Cardinality({i \in 1..Len(s) : s[i] = name})
Accepted(p) == hpc[p] # "idle" /\ ~TooLong(update[p].text)

\* C21: a typing action of the typing task that fails ends the task at once
\* and normally (never cancelled), touches nothing of the handler, of
\* llm_task or of the event, and no typing action follows it; the turn then
\* ends as every accepted turn does: the reply is the text of llm_task's
\* outcome, the history saved ends with the user turn and that text, and
\* the calls are those of a turn without the failure.
C21_DeliveryFailureIsSilent ==
  /\ [][("typing" \notin faults /\ "typing" \in faults') =>
          /\ typing_task = "sending"
          /\ typing_task' = "finished"
          /\ UNCHANGED <<tvars, stop_typing_event, llm_task, typing_sent,
                         history_saved, reply_sent>>]_vars
  /\ []("typing" \in faults => typing_task = "finished")
  /\ [][("typing" \in faults /\ "typing" \in faults') =>
          typing_sent' = typing_sent]_vars
  /\ [](\A p \in SignalHandlers :
          (hpc[p] = "done" /\ Accepted(p)) =>
            /\ reply_sent = ReplyOfOutcome(p)
            /\ history_saved[Len(history_saved)] =
                 [role |-> "assistant", content |-> ReplyOfOutcome(p)]
            /\ history_saved[Len(history_saved) - 1] = UserTurnOf(p)
            /\ save_ok[p] = "ok" => container[ChatId].history = history_saved
            /\ calls[p] = IF llm_task = "raised" THEN RaisedTurnCalls
                          ELSE NormalTurnCalls)

\* C21 witness: the second typing action of the typing task failed; the
\* turn has ended with the generated text saved and sent.
C21_Witness ==
  \E p \in SignalHandlers :
    /\ hpc[p] = "done"
    /\ "typing" \in faults
    /\ typing_sent = 2
    /\ typing_task = "finished"
    /\ llm_task = "generated"
    /\ save_ok[p] = "ok"
    /\ reply_sent = GeneratedReply(update[p].text.id)

\* the handler leaves its wait for the typing task in this step
TeardownEnds(p) == hpc[p] = "stop_typing" /\ hpc'[p] # "stop_typing"
TeardownBounded ==
  /\ [][\A p \in SignalHandlers :
          (hpc[p] = "await_llm" /\ hpc'[p] # "await_llm") =>
            /\ llm_task \in LlmTaskOutcomes
            /\ stop_typing_event'
            /\ hpc'[p] = "stop_typing"]_vars
  /\ [][\A p \in SignalHandlers :
          TeardownEnds(p) => /\ hpc'[p] = "save"
                             /\ stop_typing_event]_vars
  /\ \A p \in SignalHandlers :
       (hpc[p] = "stop_typing") ~> (hpc[p] = "done" /\ save_ok[p] # "none")

\* C22 as stated: the handler sets the event once llm_task is done and waits
\* for the typing task for a bounded time, then saves and replies; a typing
\* task still running then is left running (not cancelled).
C22_TeardownAbandons ==
  /\ TeardownBounded
  /\ [][\A p \in SignalHandlers :
          (TeardownEnds(p) /\ typing_task # "finished") =>
            typing_task' = typing_task]_vars

\* C22 amended: the same teardown, but a typing task still running when the
\* wait expires is cancelled, and takes no further step.
C22_TeardownCancels ==
  /\ TeardownBounded
  /\ [][\A p \in SignalHandlers :
          TeardownEnds(p) =>
            IF typing_task = "finished" THEN typing_task' = "finished"
            ELSE typing_task' = "cancelled"]_vars
  /\ [][typing_task = "cancelled" =>
          /\ typing_sent' = typing_sent \/ typing_task' = "none"
          /\ typing_task' \in {"cancelled", "none"}]_vars

\* C22 witness: the wait expired while a typing action was pending; the
\* typing task is cancelled and the handler has saved and replied.
C22_Witness ==
  \E p \in SignalHandlers :
    /\ hpc[p] = "done"
    /\ typing_task = "cancelled"
    /\ typing_sent >= 1
    /\ save_ok[p] = "ok"
    /\ reply_sent = ReplyOfOutcome(p)

LoadedPart(p) ==
  SubSeq(current_turn_history[p], 1, Len(current_turn_history[p]) - 2)
HistoryHas(h, turn) == \E i \in 1..Len(h) : h[i] = turn

\* C24: nothing orders two turns of one chat: the successful save of a turn
\* replaces the stored history by the history this handler loaded plus its
\* own two turns, whatever another handler has stored since the load.
C24_LastWriteWins ==
  [][\A p \in Handlers :
       (TurnSaveStep(p) /\ save_ok'[p] = "ok") =>
         /\ container'[ChatId].history = current_turn_history[p]
         /\ \A k \in DOMAIN container'[ChatId] :
              k \notin {"creator_user_id", "creator_username"} =>
                container'[ChatId][k] =
                  ItemBody(current_turn_history[p], update[p].effective_user,
                           FALSE, EmptyDict)[k]]_vars

\* C24 witness: two turns ran at once on a chat with a stored conversation,
\* both loaded the same history and both saved successfully; the stored
\* history is the one of the second save and lacks the user turn of the
\* other handler.
C24_Witness ==
  \E p, q \in Handlers :
    /\ p # q
    /\ hpc[p] = "reply" /\ hpc[q] = "reply"
    /\ save_ok[p] = "ok" /\ save_ok[q] = "ok"
    /\ Len(current_turn_history[p]) = 5
    /\ LoadedPart(p) = LoadedPart(q)
    /\ container[ChatId].history = current_turn_history[p]
    /\ HistoryHas(current_turn_history[q], UserTurnOf(q))
    /\ ~HistoryHas(container[ChatId].history, UserTurnOf(q))

\* a system turn followed by (user, assistant) pairs
WellPaired(h) ==
  /\ h # <<>>
  /\ h[1] = SYSTEM_MESSAGE
  /\ Len(h) % 2 = 1
  /\ \A i \in 2..Len(h) :
       h[i].role = IF i % 2 = 0 THEN "user" ELSE "assistant"

\* C27: starting from an empty store, the stored history is always a system
\* turn followed by (user, assistant) pairs, under concurrent turns and
\* resets with store and completion failures.
C27_SystemThenPairs ==
  HasItem => WellPaired(container[ChatId].history)

\* C27 witness: three pairs are stored, one of them with the fallback text
\* of a failed completion.
C27_Witness ==
  /\ HasItem
  /\ Len(container[ChatId].history) = 7
  /\ HistoryHas(container[ChatId].history,
                [role |-> "assistant", content |-> FallbackReply])

\* slot p holds a /start or /clear whose save has succeeded
ResetSaved(p) ==
  /\ hpc[p] # "idle"
  /\ update[p].kind \in {"start", "clear"}
  /\ hpc[p] \in {"start_reply", "clear_reply", "done"}
  /\ save_ok[p] = "ok"

\* C28: when the save of a turn lands after the successful save of a reset
\* that was sent after the turn's message, the stored history holds nothing
\* persisted before the reset: it is the system turn and the two turns of
\* this message.
C28_ResetDurable ==
  [][\A q \in Handlers :
       (/\ TurnSaveStep(q) /\ save_ok'[q] = "ok"
        /\ \E p \in Handlers \ {q} :
             ResetSaved(p) /\ update[p].text.id > update[q].text.id) =>
         container'[ChatId].history =
           <<SYSTEM_MESSAGE, UserTurnOf(q), AssistantTurnOf(q)>>]_vars

(***************************************************************************)
(* Claim on the detection of a first interaction                           *)
(***************************************************************************)
\* C26: the load step of a turn sets is_first_interaction_for_chat iff the
\* load returned an empty history and empty metadata, and an empty history
\* is replaced by a fresh system turn with or without metadata; the save of
\* a turn that is not a first interaction writes the item of is_reset false
\* with the metadata loaded, so every creator field of that metadata is
\* stored unchanged.
C26_FirstInteractionDetection ==
  [][\A p \in Handlers :
       /\ TurnLoadStep(p) =>
            \E read_ok \in BOOLEAN :
              LET loaded == get_chat_history_from_cosmos(container, read_ok)
              IN  /\ existing_doc_metadata'[p] = loaded[2]
                  /\ is_first_interaction_for_chat'[p] =
                       (loaded[1] = <<>> /\ loaded[2] = EmptyDict)
                  /\ current_turn_history'[p] =
                       Append(IF loaded[1] = <<>> THEN <<SYSTEM_MESSAGE>>
                              ELSE loaded[1], UserTurnOf(p))
       /\ (/\ TurnSaveStep(p) /\ save_ok'[p] = "ok"
           /\ ~is_first_interaction_for_chat[p]) =>
            /\ container'[ChatId] =
                 ItemBody(current_turn_history[p], update[p].effective_user,
                          FALSE, existing_doc_metadata[p])
            /\ \A k \in CreatorKeys \cap DOMAIN existing_doc_metadata[p] :
                 container'[ChatId][k] = existing_doc_metadata[p][k]]_vars

\* C26 witness: the first message handled is sent by user 101 to a chat
\* whose record has metadata of creator 102 and an empty history: the turn
\* is not a first interaction, its history starts with a fresh system turn
\* and the record saved still names 102 as the creator.
C26_Witness ==
  \E p \in Handlers :
    /\ updates = 1
    /\ HandlesText(p)
    /\ hpc[p] = "reply"
    /\ save_ok[p] = "ok"
    /\ update[p].effective_user.id = "101"
    /\ ~is_first_interaction_for_chat[p]
    /\ current_turn_history[p] =
         <<SYSTEM_MESSAGE, UserTurnOf(p), AssistantTurnOf(p)>>
    /\ DictGet(existing_doc_metadata[p], "creator_user_id", "") = "102"
    /\ container[ChatId].creator_user_id = "102"
    /\ container[ChatId].creator_username = "N/A"

(***************************************************************************)
(* Claim on the release of the initialisation lock                         *)
(***************************************************************************)
\* C29: the lock is held only while an invocation is inside the guarded
\* section (waiting for its construction attempt), whatever way the earlier
\* holders left it; hence, under fair scheduling, every invocation waiting
\* for the lock gets it and every invocation returns a response.
C29_LockAlwaysReleased ==
  /\ [](ptb_init_lock.locked => \E p \in Procs : pc[p] = "init_await")
  /\ \A p \in Procs :
       /\ (pc[p] = "lock_wait") ~> (pc[p] # "lock_wait")
       /\ (pc[p] # "idle") ~> (pc[p] = "done" /\ resp[p] # NoResponse)

\* C29 witness: a construction attempt has failed and its invocation has
\* answered 500 while another invocation waits for the lock; the lock is
\* free for the waiter.
C29_Witness ==
  \E p, q \in Procs :
    /\ pc[q] = "done"
    /\ resp[q] = Response(500, "ptb_init_failed")
    /\ pc[p] = "lock_wait"
    /\ ~ptb_init_lock.locked
    /\ Head(ptb_init_lock.waiters) = p

(***************************************************************************)
(* Claim on the creator fields written by both entry points                *)
(***************************************************************************)
\* the value the interacting user is stamped with for creator field k
InteractorValue(user, k) ==
  IF k = "creator_user_id" THEN user.id
  ELSE IF user.username # "" THEN user.username ELSE "N/A"

\* C25: in both entry points the item_body of a save with is_reset false
\* carries both creator fields: a field present in the prior metadata has
\* the prior value, a field absent from it has the value of the current
\* interactor.
C25_CreatorAlwaysWritten ==
  (sstage = "applied" /\ ~save_args.is_initial_creation_or_reset) =>
    \A k \in CreatorKeys :
      /\ k \in DOMAIN item_body
      /\ item_body[k] =
           DictGet(save_args.existing_metadata, k,
                   InteractorValue(save_args.user, k))
====
